---- MODULE Spec2Model ----
(***************************************************************************)
(* Native SQLit bindings for workerd (sqlit.h / sqlit.c++): the wire       *)
(* codec, SQLitConnection, SQLitConnectionPool, SQLitTransaction and       *)
(* SQLitStorage as state machines.                                         *)
(*                                                                         *)
(* Bytes are naturals 0..255 and buffers are sequences of bytes.  TLC's    *)
(* integers are 32 bits wide and signed, so a uint32_t that must wrap (the  *)
(* request id) or is only compared (the magic) is kept as its four          *)
(* little-endian bytes, a 64-bit value is kept as its eight bytes, and a    *)
(* uint32_t read as a length is the number it encodes up to LenCap = 2^30:  *)
(* a larger length is reported as LenCap.  No stream of the model ever      *)
(* holds that many bytes, so a read of LenCap bytes and a read of more      *)
(* behave alike: both wait.                                                 *)
(***************************************************************************)
EXTENDS Integers, Sequences, FiniteSets, TLC

\* ------------------------------------------------------------------------
\* Protocol constants (sqlit.c++ 18-46)
\* ------------------------------------------------------------------------
MAGIC_NUMBER == 1414287699
PROTOCOL_VERSION == 1
HEADER_SIZE == 12
MAX_MESSAGE_SIZE == 16777216

TYPE_QUERY == 1
TYPE_EXEC == 2
TYPE_TX_BEGIN == 3
TYPE_TX_COMMIT == 4
TYPE_TX_ROLLBACK == 5
TYPE_PING == 6
TYPE_RESULT == 128
TYPE_ERROR == 129
TYPE_ROWS == 130
TYPE_ROWS_END == 131
TYPE_PONG == 134

VALUE_NULL == 0
VALUE_INT64 == 1
VALUE_FLOAT64 == 2
VALUE_STRING == 3
VALUE_BLOB == 4
VALUE_BOOL == 5

FLAG_STREAMING == 1
FLAG_ASSOC == 4

\* ------------------------------------------------------------------------
\* Little-endian helpers
\* ------------------------------------------------------------------------
Min(a, b) == IF a < b THEN a ELSE b

Take(s, n) == SubSeq(s, 1, Min(n, Len(s)))

Drop(s, n) == SubSeq(s, Min(n, Len(s)) + 1, Len(s))

RECURSIVE writeLE(_, _)
\* writeLE<T>(buf, value): the sizeofT low bytes of value, lowest first.
writeLE(value, sizeofT) ==
    IF sizeofT = 0 THEN <<>>
    ELSE <<value % 256>> \o writeLE(value \div 256, sizeofT - 1)

RECURSIVE readLE(_)
\* readLE<T>(buf): value |= buf[i] << (i * 8) over the bytes of buf.
readLE(buf) ==
    IF buf = <<>> THEN 0
    ELSE buf[1] + 256 * readLE(Tail(buf))

\* A uint32_t length field (readLE<uint32_t> of four bytes).
LenCap == 64 * MAX_MESSAGE_SIZE

readLen(buf) == IF buf[4] >= 64 THEN LenCap ELSE readLE(buf)

\* fetch_add(1) on a uint32_t held as four little-endian bytes: the carry runs
\* upward and the value wraps from ff ff ff ff to 00 00 00 00.
RECURSIVE U32Inc(_)
U32Inc(b) ==
    IF b = <<>> THEN <<>>
    ELSE IF b[1] < 255 THEN <<b[1] + 1>> \o Tail(b)
    ELSE <<0>> \o U32Inc(Tail(b))

U32Zero == <<0, 0, 0, 0>>

\* ------------------------------------------------------------------------
\* Value codec.  A SQLitValue is a record tagged with its wire type:
\*   [tag |-> VALUE_NULL], [tag |-> VALUE_INT64, words], [tag |-> VALUE_FLOAT64, words],
\*   [tag |-> VALUE_STRING, bytes], [tag |-> VALUE_BLOB, bytes],
\*   [tag |-> VALUE_BOOL, b |-> BOOLEAN]
\* words is a 64-bit pattern (the int64_t, or the bits of the double) as four
\* 16-bit words, the least significant first.
\* ------------------------------------------------------------------------
NullValue == [tag |-> VALUE_NULL]

\* writeLE<uint64_t> and readLE<uint64_t> on a pattern held as four words.
writeLE64(words) ==
    writeLE(words[1], 2) \o writeLE(words[2], 2) \o writeLE(words[3], 2) \o writeLE(words[4], 2)

readLE64(buf) ==
    <<readLE(SubSeq(buf, 1, 2)), readLE(SubSeq(buf, 3, 4)),
      readLE(SubSeq(buf, 5, 6)), readLE(SubSeq(buf, 7, 8))>>

\* What a read past the end of a buffer yields: whatever the memory behind it
\* holds.
Indeterminate == "indeterminate"

serializeValue(value) ==
    CASE value.tag = VALUE_BLOB ->
            <<VALUE_BLOB>> \o writeLE(Len(value.bytes), 4) \o value.bytes
      [] value.tag = VALUE_STRING ->
            <<VALUE_STRING>> \o writeLE(Len(value.bytes), 4) \o value.bytes
      [] value.tag = VALUE_FLOAT64 ->
            <<VALUE_FLOAT64>> \o writeLE(8, 4) \o writeLE64(value.words)
      [] value.tag = VALUE_INT64 ->
            <<VALUE_INT64>> \o writeLE(8, 4) \o writeLE64(value.words)
      [] value.tag = VALUE_BOOL ->
            <<VALUE_BOOL>> \o writeLE(1, 4) \o <<IF value.b THEN 1 ELSE 0>>
      [] OTHER -> <<VALUE_NULL>>

RECURSIVE serializeAll(_)
serializeAll(bindings) ==
    IF bindings = <<>> THEN <<>>
    ELSE serializeValue(Head(bindings)) \o serializeAll(Tail(bindings))

\* Mutant of boolOf: the payload byte is read the wrong way round.
boolOfInverted(valueData) == valueData[1] = 0

\* valueData[0] != 0 (158).
boolOf(valueData) == valueData[1] # 0

\* deserializeValue(data): err is the KJ_REQUIRE that failed ("" if none),
\* value the SQLitValue returned and rest what is left of data, which the
\* function advances past the bytes it has taken.
deserializeValue(data) ==
    IF Len(data) < 1 THEN [err |-> "truncated value", value |-> NullValue, rest |-> data]
    ELSE LET type == data[1]
             d1 == Drop(data, 1)
         IN  IF type = VALUE_NULL THEN [err |-> "", value |-> NullValue, rest |-> d1]
             ELSE IF Len(d1) < 4
             THEN [err |-> "truncated value length", value |-> NullValue, rest |-> d1]
             ELSE LET len == readLen(Take(d1, 4))
                      d2 == Drop(d1, 4)
                  IN  IF Len(d2) < len
                      THEN [err |-> "truncated value data", value |-> NullValue, rest |-> d2]
                      ELSE LET valueData == Take(d2, len)
                               d3 == Drop(d2, len)
                               fail(msg) == [err |-> msg, value |-> NullValue, rest |-> d3]
                               ok(v) == [err |-> "", value |-> v, rest |-> d3]
                           IN  CASE type = VALUE_INT64 ->
                                      IF len # 8 THEN fail("invalid int64 length")
                                      ELSE ok([tag |-> VALUE_INT64, words |-> readLE64(valueData)])
                                 [] type = VALUE_FLOAT64 ->
                                      IF len # 8 THEN fail("invalid float64 length")
                                      ELSE ok([tag |-> VALUE_FLOAT64, words |-> readLE64(valueData)])
                                 [] type = VALUE_STRING -> ok([tag |-> VALUE_STRING, bytes |-> valueData])
                                 [] type = VALUE_BLOB -> ok([tag |-> VALUE_BLOB, bytes |-> valueData])
                                 [] type = VALUE_BOOL ->
                                      IF len # 1 THEN fail("invalid bool length")
                                      ELSE ok([tag |-> VALUE_BOOL, b |-> boolOf(valueData)])
                                 [] OTHER -> fail("unknown value type")

\* ------------------------------------------------------------------------
\* Frame codec
\* ------------------------------------------------------------------------
\* The 12-byte header; requestId is already four little-endian bytes.
headerBytes(magic, version, type, flags, requestId) ==
    writeLE(magic, 4) \o <<version, type>> \o writeLE(flags, 2) \o requestId

\* The sizes of the serialized bindings, summed (176-180).
RECURSIVE serializedSize(_)
serializedSize(bindings) ==
    IF bindings = <<>> THEN 0
    ELSE Len(serializeValue(Head(bindings))) + serializedSize(Tail(bindings))

buildRequest(type, requestId, flags, databaseId, sql, bindings) ==
    LET body == writeLE(Len(databaseId), 4) \o databaseId
                \o writeLE(Len(sql), 4) \o sql
                \o writeLE(Len(bindings), 2) \o serializeAll(bindings)
        bodySize == 4 + (4 + Len(databaseId)) + (4 + Len(sql)) + 2 + serializedSize(bindings)
    IN  headerBytes(MAGIC_NUMBER, PROTOCOL_VERSION, type, flags, requestId)
        \o writeLE(bodySize - 4, 4) \o body

\* Mutant of parseHeader: magic and version are not checked.
parseHeaderUnchecked(data) ==
    [magic |-> SubSeq(data, 1, 4),
     version |-> data[5],
     type |-> data[6],
     flags |-> readLE(SubSeq(data, 7, 8)),
     requestId |-> SubSeq(data, 9, 12),
     err |-> ""]

\* parseHeader: the fields, and err, the KJ_REQUIRE that failed ("" if none).
parseHeader(data) ==
    LET magic == SubSeq(data, 1, 4)
        version == data[5]
    IN  [magic |-> magic,
         version |-> version,
         type |-> data[6],
         flags |-> readLE(SubSeq(data, 7, 8)),
         requestId |-> SubSeq(data, 9, 12),
         err |-> IF magic # writeLE(MAGIC_NUMBER, 4) THEN "invalid magic number"
                 ELSE IF version > PROTOCOL_VERSION THEN "unsupported protocol version"
                 ELSE ""]

\* ------------------------------------------------------------------------
\* Response readers.  Each SQLitConnection operation, once its request is
\* written, is a sequence of stream->read(buf, n) calls decided by the bytes
\* read so far.  A reader is a function of got, the bytes the operation has
\* consumed: Need(n) when its current read still waits for n bytes, or
\* Done(outcome, val) when the coroutine has returned or thrown.  outcome is
\* "ok" or the message of the KJ_REQUIRE that failed.
\* ------------------------------------------------------------------------
Need(n) == [st |-> "need", n |-> n, outcome |-> "", val |-> <<>>]

Done(outcome, val) == [st |-> "done", n |-> 0, outcome |-> outcome, val |-> val]

\* The coroutine is inside a loop that has not ended.
Running == [st |-> "running", n |-> 0, outcome |-> "", val |-> <<>>]

\* got[from+1 .. from+n]
Slice(got, from, n) == SubSeq(got, from + 1, from + n)

\* Mutant of readErrorBody: throws on the ERROR header and leaves the body unread.
readErrorBodySkipped(got, what) == Done(what, <<>>)

\* The ERROR branch shared by query, exec and the transaction calls:
\* read errLen:u32, read errLen bytes, KJ_FAIL_REQUIRE(what, errorMsg).
readErrorBody(got, what) ==
    IF Len(got) < HEADER_SIZE + 4 THEN Need(HEADER_SIZE + 4 - Len(got))
    ELSE LET errorLen == readLen(Slice(got, HEADER_SIZE, 4))
         IN  IF Len(got) < HEADER_SIZE + 4 + errorLen
             THEN Need(HEADER_SIZE + 4 + errorLen - Len(got))
             ELSE Done(what, Slice(got, HEADER_SIZE + 4, errorLen))

\* Mutant of pingReader: any valid header counts as PONG.
pingReaderAnyHeader(got) ==
    IF Len(got) < HEADER_SIZE THEN Need(HEADER_SIZE - Len(got))
    ELSE LET header == parseHeader(Take(got, HEADER_SIZE))
         IN  IF header.err # "" THEN Done(header.err, <<>>)
             ELSE Done("ok", TRUE)

\* SQLitConnection::ping after the write (529-535).
pingReader(got) ==
    IF Len(got) < HEADER_SIZE THEN Need(HEADER_SIZE - Len(got))
    ELSE LET header == parseHeader(Take(got, HEADER_SIZE))
         IN  IF header.err # "" THEN Done(header.err, <<>>)
             ELSE Done("ok", header.type = TYPE_PONG)

\* SQLitConnection::exec after the write (476-510); val is rowsAffected as
\* its eight bytes.
execReader(got) ==
    IF Len(got) < HEADER_SIZE THEN Need(HEADER_SIZE - Len(got))
    ELSE LET header == parseHeader(Take(got, HEADER_SIZE))
         IN  IF header.err # "" THEN Done(header.err, <<>>)
             ELSE IF header.type = TYPE_ERROR THEN readErrorBody(got, "SQLit exec error")
             ELSE IF header.type # TYPE_RESULT THEN Done("unexpected response type", <<>>)
             ELSE IF Len(got) < HEADER_SIZE + 1 THEN Need(1)
             ELSE IF got[HEADER_SIZE + 1] # 1 THEN Done("exec failed", <<>>)
             ELSE IF Len(got) < HEADER_SIZE + 9 THEN Need(HEADER_SIZE + 9 - Len(got))
             ELSE IF Len(got) < HEADER_SIZE + 17 THEN Need(HEADER_SIZE + 17 - Len(got))
             ELSE Done("ok", Slice(got, HEADER_SIZE + 9, 8))

\* The switch of query's inline cell decoder (430-459).  valData holds valLen
\* bytes; readLE<uint64_t> and valData[0] read it without looking at valLen,
\* so with a short valData they read past its end and the value is
\* indeterminate.
inlineDecode(valueType, valData) ==
    CASE valueType = VALUE_INT64 ->
            [tag |-> VALUE_INT64,
             words |-> IF Len(valData) >= 8 THEN readLE64(valData) ELSE Indeterminate]
      [] valueType = VALUE_FLOAT64 ->
            [tag |-> VALUE_FLOAT64,
             words |-> IF Len(valData) >= 8 THEN readLE64(valData) ELSE Indeterminate]
      [] valueType = VALUE_STRING -> [tag |-> VALUE_STRING, bytes |-> valData]
      [] valueType = VALUE_BLOB -> [tag |-> VALUE_BLOB, bytes |-> valData]
      [] valueType = VALUE_BOOL ->
            [tag |-> VALUE_BOOL,
             b |-> IF Len(valData) >= 1 THEN valData[1] # 0 ELSE Indeterminate]
      [] OTHER -> [tag |-> valueType]

KnownValueType(valueType) ==
    valueType \in {VALUE_INT64, VALUE_FLOAT64, VALUE_STRING, VALUE_BLOB, VALUE_BOOL}

\* The loops of query over columns and cells keep a position in the bytes,
\* their uint8_t counter and what they have collected.  st is "run" while the
\* loop goes on, "ok" when its test has failed, "need" when a read must wait
\* for n more bytes, or the message of the KJ_REQUIRE that failed.
LoopStart(pos, i, out) == [st |-> "run", n |-> 0, pos |-> pos, i |-> i, out |-> out]

LoopResult(s) == [st |-> s.st, n |-> s.n, pos |-> s.pos, out |-> s.out]

\* One test of the column-name loop and, if it passes, one run of its body
\* (388-398): uint8_t i counts modulo 256.
columnStep(got, colCount, s) ==
    IF s.st # "run" THEN s
    ELSE IF ~(s.i < colCount) THEN [s EXCEPT !.st = "ok"]
    ELSE IF Len(got) < s.pos + 4 THEN [s EXCEPT !.st = "need", !.n = s.pos + 4 - Len(got)]
    ELSE LET nameLen == readLen(Slice(got, s.pos, 4))
         IN  IF Len(got) < s.pos + 4 + nameLen
             THEN [s EXCEPT !.st = "need", !.n = s.pos + 4 + nameLen - Len(got)]
             ELSE [s EXCEPT !.pos = s.pos + 4 + nameLen,
                            !.i = (s.i + 1) % 256,
                            !.out = Append(s.out, Slice(got, s.pos + 4, nameLen))]

\* k steps of the column-name loop, one after the other: the first half of
\* them, then the rest from the state the first half has reached.
RECURSIVE columnSteps(_, _, _, _)
columnSteps(got, colCount, s, k) ==
    IF k = 0 THEN s
    ELSE IF k = 1 THEN columnStep(got, colCount, s)
    ELSE CHOOSE out \in {columnSteps(got, colCount, half, k - (k \div 2)) :
                            half \in {columnSteps(got, colCount, s, k \div 2)}} : TRUE

\* The column-name loop (388-398), followed for the colCount + 1 tests a loop
\* over colCount names makes; st is still "run" if it has not ended by then.
readColumns(got, pos, i, colCount, columns) ==
    LoopResult(columnSteps(got, colCount, LoopStart(pos, i, columns), colCount + 1))

\* Mutant of cellStep: a NULL cell is skipped without being added to the row.
cellStepNullDropped(got, colCount, s) ==
    IF s.st # "run" THEN s
    ELSE IF ~(s.i < colCount) THEN [s EXCEPT !.st = "ok"]
    ELSE IF Len(got) < s.pos + 1 THEN [s EXCEPT !.st = "need", !.n = 1]
    ELSE LET valueType == got[s.pos + 1]
         IN  IF valueType = VALUE_NULL
             THEN [s EXCEPT !.pos = s.pos + 1, !.i = (s.i + 1) % 256]
             ELSE IF Len(got) < s.pos + 5
             THEN [s EXCEPT !.st = "need", !.n = s.pos + 5 - Len(got)]
             ELSE LET valLen == readLen(Slice(got, s.pos + 1, 4))
                  IN  IF Len(got) < s.pos + 5 + valLen
                      THEN [s EXCEPT !.st = "need", !.n = s.pos + 5 + valLen - Len(got)]
                      ELSE IF ~KnownValueType(valueType)
                      THEN [s EXCEPT !.st = "unknown value type", !.pos = s.pos + 5 + valLen]
                      ELSE [s EXCEPT !.pos = s.pos + 5 + valLen,
                                     !.i = (s.i + 1) % 256,
                                     !.out = Append(s.out, inlineDecode(valueType,
                                                        Slice(got, s.pos + 5, valLen)))]

\* One test of the cell loop of a row and, if it passes, one run of its body
\* (409-460): uint8_t c counts modulo 256.
cellStep(got, colCount, s) ==
    IF s.st # "run" THEN s
    ELSE IF ~(s.i < colCount) THEN [s EXCEPT !.st = "ok"]
    ELSE IF Len(got) < s.pos + 1 THEN [s EXCEPT !.st = "need", !.n = 1]
    ELSE LET valueType == got[s.pos + 1]
         IN  IF valueType = VALUE_NULL
             THEN [s EXCEPT !.pos = s.pos + 1,
                            !.i = (s.i + 1) % 256,
                            !.out = Append(s.out, NullValue)]
             ELSE IF Len(got) < s.pos + 5
             THEN [s EXCEPT !.st = "need", !.n = s.pos + 5 - Len(got)]
             ELSE LET valLen == readLen(Slice(got, s.pos + 1, 4))
                  IN  IF Len(got) < s.pos + 5 + valLen
                      THEN [s EXCEPT !.st = "need", !.n = s.pos + 5 + valLen - Len(got)]
                      ELSE IF ~KnownValueType(valueType)
                      THEN [s EXCEPT !.st = "unknown value type", !.pos = s.pos + 5 + valLen]
                      ELSE [s EXCEPT !.pos = s.pos + 5 + valLen,
                                     !.i = (s.i + 1) % 256,
                                     !.out = Append(s.out, inlineDecode(valueType,
                                                        Slice(got, s.pos + 5, valLen)))]

\* k steps of the cell loop, one after the other, halved likewise.
RECURSIVE cellSteps(_, _, _, _)
cellSteps(got, colCount, s, k) ==
    IF k = 0 THEN s
    ELSE IF k = 1 THEN cellStep(got, colCount, s)
    ELSE CHOOSE out \in {cellSteps(got, colCount, half, k - (k \div 2)) :
                            half \in {cellSteps(got, colCount, s, k \div 2)}} : TRUE

\* The cell loop of one row (409-460), followed for colCount + 1 tests.
readCells(got, pos, c, colCount, row) ==
    LoopResult(cellSteps(got, colCount, LoopStart(pos, c, row), colCount + 1))

\* The row loop (406-462).
RECURSIVE readRows(_, _, _, _, _, _)
readRows(got, pos, r, rowCount, colCount, rows) ==
    IF ~(r < rowCount) THEN [st |-> "ok", n |-> 0, pos |-> pos, out |-> rows]
    ELSE LET cells == readCells(got, pos, 0, colCount, <<>>)
         IN  IF cells.st # "ok" THEN [cells EXCEPT !.out = rows]
             ELSE readRows(got, cells.pos, r + 1, rowCount, colCount, Append(rows, cells.out))

\* SQLitConnection::query after the write (357-464).
queryReader(got) ==
    IF Len(got) < HEADER_SIZE THEN Need(HEADER_SIZE - Len(got))
    ELSE LET header == parseHeader(Take(got, HEADER_SIZE))
         IN  IF header.err # "" THEN Done(header.err, <<>>)
             ELSE IF header.type = TYPE_ERROR THEN readErrorBody(got, "SQLit query error")
             ELSE IF header.type # TYPE_RESULT THEN Done("unexpected response type", <<>>)
             ELSE IF Len(got) < HEADER_SIZE + 1 THEN Need(1)
             ELSE IF got[HEADER_SIZE + 1] # 1 THEN Done("query failed", <<>>)
             ELSE IF Len(got) < HEADER_SIZE + 2 THEN Need(1)
             ELSE LET colCount == got[HEADER_SIZE + 2]
                      cols == readColumns(got, HEADER_SIZE + 2, 0, colCount, <<>>)
                  IN  IF cols.st = "need" THEN Need(cols.n)
                      ELSE IF cols.st = "run" THEN Running
                      ELSE IF Len(got) < cols.pos + 4 THEN Need(cols.pos + 4 - Len(got))
                      ELSE LET rowCount == readLen(Slice(got, cols.pos, 4))
                               rows == readRows(got, cols.pos + 4, 0, rowCount, colCount, <<>>)
                           IN  IF rows.st = "need" THEN Need(rows.n)
                               ELSE IF rows.st = "run" THEN Running
                               ELSE IF rows.st # "ok" THEN Done(rows.st, <<>>)
                               ELSE Done("ok", <<cols.out, rows.out>>)

\* SQLitConnection::beginTransaction after the write (572-603).
beginReader(got) ==
    IF Len(got) < HEADER_SIZE THEN Need(HEADER_SIZE - Len(got))
    ELSE LET header == parseHeader(Take(got, HEADER_SIZE))
         IN  IF header.err # "" THEN Done(header.err, <<>>)
             ELSE IF header.type = TYPE_ERROR
             THEN readErrorBody(got, "SQLit beginTransaction error")
             ELSE IF Len(got) < HEADER_SIZE + 1 THEN Need(1)
             ELSE IF got[HEADER_SIZE + 1] # 1 THEN Done("beginTransaction failed", <<>>)
             ELSE IF Len(got) < HEADER_SIZE + 5 THEN Need(HEADER_SIZE + 5 - Len(got))
             ELSE LET txIdLen == readLen(Slice(got, HEADER_SIZE + 1, 4))
                  IN  IF Len(got) < HEADER_SIZE + 5 + txIdLen
                      THEN Need(HEADER_SIZE + 5 + txIdLen - Len(got))
                      ELSE Done("ok", Slice(got, HEADER_SIZE + 5, txIdLen))

\* SQLitConnection::commitTransaction / rollbackTransaction after the write
\* (616-637, 649-670); what is "SQLit commit error" / "commit failed" or the
\* rollback pair.
endTxReader(got, errWhat, failWhat) ==
    IF Len(got) < HEADER_SIZE THEN Need(HEADER_SIZE - Len(got))
    ELSE LET header == parseHeader(Take(got, HEADER_SIZE))
         IN  IF header.err # "" THEN Done(header.err, <<>>)
             ELSE IF header.type = TYPE_ERROR THEN readErrorBody(got, errWhat)
             ELSE IF Len(got) < HEADER_SIZE + 1 THEN Need(1)
             ELSE IF got[HEADER_SIZE + 1] # 1 THEN Done(failWhat, <<>>)
             ELSE Done("ok", <<>>)

commitReader(got) == endTxReader(got, "SQLit commit error", "commit failed")

rollbackReader(got) == endTxReader(got, "SQLit rollback error", "rollback failed")

\* The reader of an operation kind.
Reader(kind, got) ==
    CASE kind = "query" -> queryReader(got)
      [] kind = "exec" -> execReader(got)
      [] kind = "ping" -> pingReader(got)
      [] kind = "begin" -> beginReader(got)
      [] kind = "commit" -> commitReader(got)
      [] kind = "rollback" -> rollbackReader(got)

\* Run the reads of an operation against the unread bytes avail of its stream
\* until the operation ends or a read has to wait: <<got', avail'>>.  The
\* bytes after one read are bound as values (g, a) before the next read is
\* looked at.
RECURSIVE Consume(_, _, _)
Consume(kind, got, avail) ==
    LET r == Reader(kind, got)
    IN  IF r.st # "need" \/ avail = <<>> THEN <<got, avail>>
        ELSE CHOOSE out \in {Consume(kind, g, a) : g \in {got \o Take(avail, r.n)},
                                                      a \in {Drop(avail, r.n)}} : TRUE

\* Outcome classes (spec section 7).  A server error is the ERROR frame's
\* KJ_FAIL_REQUIRE; every other failed KJ_REQUIRE of a reader is a protocol
\* error.
IsServerError(outcome) ==
    outcome \in {"SQLit query error", "SQLit exec error", "SQLit beginTransaction error",
                 "SQLit commit error", "SQLit rollback error"}

IsProtocolError(outcome) ==
    outcome \in {"invalid magic number", "unsupported protocol version",
                 "unexpected response type", "query failed", "exec failed",
                 "beginTransaction failed", "commit failed", "rollback failed",
                 "unknown value type"}

\* ------------------------------------------------------------------------
\* Bounds and input menus
\* ------------------------------------------------------------------------
\* Host calls on the SQLitStorage handle in one run.
MaxStorageCalls == 2
\* Host calls on the SQLitTransaction handle in one run.
MaxTxCalls == 2

\* config.databaseId ("d"), and the sql texts and binding lists the host passes.
DatabaseId == <<100>>

SqlMenu == {<<83>>}

BindingsMenu == {<<>>}

\* "s" is the connection a SQLitStorage owns, "t" the connection that
\* SQLitStorage::transaction creates for its SQLitTransaction.
ConnIds == {"s", "t"}

\* Mutant of txConn: the transaction runs on the Storage's own connection.
txConnShared == "s"

\* The connection transaction() creates (kj::heap<SQLitConnection>, 1101) and
\* moves into the SQLitTransaction (1111).
txConn == "t"

\* The functions that each hold a function-local static requestIdCounter.
CounterSites == {"writeRequest", "query", "exec", "ping", "begin", "commit", "rollback"}

\* The cursor before any query has returned one.
NoCursor == [open |-> FALSE]

VARIABLES
    conn,              \* conn[c]: [stream, connected] of SQLitConnection c
    requestIdCounter,  \* requestIdCounter[f]: the static counter of function f
    wire,              \* wire[c]: the request frames written on c's stream, in order
    inb,               \* inb[c]: bytes the server has sent on c that no read has taken
    sent,              \* sent[c]: per answered request of c, what the server sent
    ops,               \* the host's calls, in call order, and where each stands
    tx,                \* the SQLitTransaction object
    hist,              \* hist[c]: what has happened on c so far (observation only)
    available,         \* SQLitConnectionPool::available, the idle connections
    inUse,             \* SQLitConnectionPool::inUse
    waiters,           \* SQLitConnectionPool::waiters, one fulfiller per entry
    acq,               \* acq[a]: where acquirer a stands and what it holds
    pconn,             \* pconn[k]: the k-th connection the pool has created
    serial,            \* no pool call has begun while an acquire() was suspended (observation only)
    codec,             \* the last application of the wire codec: its inputs and results
    cursor             \* the SQLitCursor object and what its iterations have yielded

connVars == <<conn, requestIdCounter, wire, inb, sent, ops, tx, hist>>

poolVars == <<available, inUse, waiters, acq, pconn, serial>>

vars == <<conn, requestIdCounter, wire, inb, sent, ops, tx, hist,
          available, inUse, waiters, acq, pconn, serial, codec, cursor>>

\* The codec and the cursor, which no connection or pool operation touches.
auxVars == <<codec, cursor>>

\* ------------------------------------------------------------------------
\* The server: answers the oldest unanswered request of a connection with one
\* complete frame.  Besides the frame the protocol prescribes it may send an
\* ERROR frame or a malformed one.
\* ------------------------------------------------------------------------
respHeader(magic, version, type, requestId) ==
    headerBytes(magic, version, type, 0, requestId)

Int64Bytes(n) == writeLE(n, 8)

\* RESULT body per request type (spec 4.2).
resultBody(reqType) ==
    CASE reqType = TYPE_QUERY ->
            <<1, 1>> \o writeLE(1, 4) \o <<97>> \o writeLE(1, 4)
            \o <<VALUE_INT64>> \o writeLE(8, 4) \o Int64Bytes(7)
      [] reqType = TYPE_EXEC -> <<1>> \o Int64Bytes(42) \o Int64Bytes(3)
      [] reqType = TYPE_TX_BEGIN -> <<1>> \o writeLE(2, 4) \o <<116, 49>>
      [] OTHER -> <<1>>

\* The answers to a request frame: name |-> bytes.
Responses(frame) ==
    LET reqType == frame[6]
        id == SubSeq(frame, 9, 12)
        good == IF reqType = TYPE_PING
                THEN respHeader(MAGIC_NUMBER, PROTOCOL_VERSION, TYPE_PONG, id)
                ELSE respHeader(MAGIC_NUMBER, PROTOCOL_VERSION, TYPE_RESULT, id)
                     \o resultBody(reqType)
    IN  [good |-> good,
         error |-> respHeader(MAGIC_NUMBER, PROTOCOL_VERSION, TYPE_ERROR, id)
                   \o writeLE(2, 4) \o <<101, 114>>,
         \* the body of the well-formed answer behind a header that is not valid
         badMagic |-> respHeader(MAGIC_NUMBER + 1, PROTOCOL_VERSION, TYPE_RESULT, id)
                      \o resultBody(reqType),
         badVersion |-> respHeader(MAGIC_NUMBER, PROTOCOL_VERSION + 1, TYPE_RESULT, id)
                        \o resultBody(reqType),
         failed |-> respHeader(MAGIC_NUMBER, PROTOCOL_VERSION, TYPE_RESULT, id) \o <<0>>,
         rows |-> respHeader(MAGIC_NUMBER, PROTOCOL_VERSION, TYPE_ROWS, id),
         badTag |-> respHeader(MAGIC_NUMBER, PROTOCOL_VERSION, TYPE_RESULT, id)
                    \o <<1, 1>> \o writeLE(1, 4) \o <<97>> \o writeLE(1, 4)
                    \o <<9>> \o writeLE(0, 4),
         \* the well-formed answer, echoing a request id that is not the request's
         badId |-> Take(good, 8) \o U32Inc(id) \o Drop(good, HEADER_SIZE),
         \* an ERROR frame announcing a message of MAX_MESSAGE_SIZE + 1 bytes
         hugeError |-> respHeader(MAGIC_NUMBER, PROTOCOL_VERSION, TYPE_ERROR, id)
                       \o writeLE(MAX_MESSAGE_SIZE + 1, 4)]

ResponseNames(frame) ==
    {"good", "error", "badMagic", "badVersion", "failed", "rows", "badId", "hugeError"}
    \cup (IF frame[6] = TYPE_QUERY THEN {"badTag"} ELSE {})

ServerRespond(c) ==
    /\ Len(sent[c]) < Len(wire[c])
    /\ \E name \in ResponseNames(wire[c][Len(sent[c]) + 1]) :
          LET bytes == Responses(wire[c][Len(sent[c]) + 1])[name]
          IN  /\ inb' = [inb EXCEPT ![c] = @ \o bytes]
              /\ sent' = [sent EXCEPT ![c] = Append(@, [name |-> name, len |-> Len(bytes)])]
    /\ UNCHANGED <<conn, requestIdCounter, wire, ops, tx, hist>>
    /\ UNCHANGED poolVars
    /\ UNCHANGED auxVars

\* ------------------------------------------------------------------------
\* SQLitConnection
\* ------------------------------------------------------------------------
\* A connection as constructed: no stream, connected = false (sqlit.h 236-237).
NewConnection == [stream |-> FALSE, connected |-> FALSE]

\* SQLitConnection::connect() that succeeded: stream set, connected = true.
connect(cn) == [cn EXCEPT !.stream = TRUE, !.connected = TRUE]

\* SQLitConnection::close().
close(cn) == IF cn.stream THEN [cn EXCEPT !.stream = FALSE, !.connected = FALSE] ELSE cn

\* Mutant of isConnected: reports a closed connection as connected.
isConnectedAlways(cn) == TRUE

isConnected(cn) == cn.connected

\* What an operation that ended with outcome leaves of the connection: no
\* operation assigns connected or touches the stream object, whether it
\* returns or throws.
connAfter(outcome, cn) == cn

\* ping's frame: the header alone (520-525).
pingFrame(requestId) ==
    headerBytes(MAGIC_NUMBER, PROTOCOL_VERSION, TYPE_PING, 0, requestId)

\* Mutant of beginFrame: bodyLen counts its own four bytes.
beginFrameCountsLengthField(requestId, databaseId) ==
    headerBytes(MAGIC_NUMBER, PROTOCOL_VERSION, TYPE_TX_BEGIN, 0, requestId)
    \o writeLE(4 + 4 + Len(databaseId) + 4 + 2, 4)
    \o writeLE(Len(databaseId), 4) \o databaseId
    \o writeLE(0, 4)
    \o writeLE(0, 2)

\* beginTransaction's hand-built frame (545-568).
beginFrame(requestId, databaseId) ==
    LET bodyLen == 4 + Len(databaseId) + 4 + 2
    IN  headerBytes(MAGIC_NUMBER, PROTOCOL_VERSION, TYPE_TX_BEGIN, 0, requestId)
        \o writeLE(bodyLen, 4)
        \o writeLE(Len(databaseId), 4) \o databaseId
        \o writeLE(0, 4)
        \o writeLE(0, 2)

\* The request frame of each operation; sql carries the transaction id for
\* commit and rollback.
requestFrame(kind, requestId, sql, bindings) ==
    CASE kind = "query" ->
            buildRequest(TYPE_QUERY, requestId, FLAG_ASSOC, DatabaseId, sql, bindings)
      [] kind = "exec" -> buildRequest(TYPE_EXEC, requestId, 0, DatabaseId, sql, bindings)
      [] kind = "ping" -> pingFrame(requestId)
      [] kind = "begin" -> beginFrame(requestId, DatabaseId)
      [] kind = "commit" -> buildRequest(TYPE_TX_COMMIT, requestId, 0, DatabaseId, sql, <<>>)
      [] kind = "rollback" -> buildRequest(TYPE_TX_ROLLBACK, requestId, 0, DatabaseId, sql, <<>>)

\* ------------------------------------------------------------------------
\* Calls.  ops[i] is the i-th call the host made:
\*   via, conn, kind   the handle called, the connection used, the operation
\*   blocking          the host waits for it (waitForPromise) before going on
\*   st                "connecting", "pending" (request written, reading) or "done"
\*   got               the response bytes it has read
\*   outcome, val      how it ended
\*   frame             index in wire[conn] of the frame it wrote, 0 if none
\* and, as observations: afterFail (when the call was made, an earlier
\* operation on the connection had ended in a protocol error), alone (when the
\* call was made, the connection had no exchange under way and no unread byte),
\* overlapped (another exchange on the connection was under way at some moment
\* of this one), afterServerError (alone, and the last operation on the
\* connection had run by itself and ended in a server error).
\* ------------------------------------------------------------------------
Pending(c) == {i \in 1..Len(ops) : ops[i].conn = c /\ ops[i].st = "pending"}

HostBlocked == \E i \in 1..Len(ops) : ops[i].blocking /\ ops[i].st # "done"

Quiescent(c) == Pending(c) = {} /\ inb[c] = <<>> /\ Len(sent[c]) = Len(wire[c])

CallsVia(via) == Cardinality({i \in 1..Len(ops) : ops[i].via = via})

NewOp(via, c, kind, blocking) ==
    [via |-> via, conn |-> c, kind |-> kind, blocking |-> blocking,
     st |-> "pending", got |-> <<>>, outcome |-> "", val |-> <<>>, frame |-> 0,
     afterFail |-> hist[c].failed,
     alone |-> Quiescent(c),
     overlapped |-> Pending(c) # {},
     afterServerError |-> Quiescent(c) /\ hist[c].lastServerError]

Finished(op, outcome, val) == [op EXCEPT !.st = "done", !.outcome = outcome, !.val = val]

\* The operation ran with the connection to itself from call to end.
Solo(op) == op.alone /\ ~op.overlapped

\* ops with every exchange under way on c noted as overlapped.
Overlapping(c) ==
    [k \in 1..Len(ops) |->
        IF ops[k].conn = c /\ ops[k].st = "pending"
        THEN [ops[k] EXCEPT !.overlapped = TRUE] ELSE ops[k]]

\* A SQLitConnection operation up to its first wait: KJ_REQUIRE(connected),
\* take the request id from the function's own static counter, build the
\* frame and start writing it.  cn is the connection as the caller left it.
Issue(op, cn, sql, bindings) ==
    IF ~cn.connected
    THEN /\ ops' = Append(ops, Finished(op, "not connected", <<>>))
         /\ UNCHANGED <<requestIdCounter, wire>>
    ELSE /\ requestIdCounter' = [requestIdCounter EXCEPT ![op.kind] = U32Inc(@)]
         /\ wire' = [wire EXCEPT ![op.conn] =
                        Append(@, requestFrame(op.kind, requestIdCounter[op.kind], sql, bindings))]
         /\ ops' = Append(Overlapping(op.conn), [op EXCEPT !.frame = Len(wire[op.conn]) + 1])

\* The coroutine of ops[i] resumes: its reads take what the stream holds until
\* the operation ends or a read must wait again.  hist[c].closed (close() has
\* been called on c) and hist[c].destroyed (c's owner has destroyed it) are
\* observations set by the actions that close and destroy connections.
OpProgress(i) ==
    /\ ops[i].st = "pending"
    /\ conn[ops[i].conn].stream
    /\ inb[ops[i].conn] # <<>>
    /\ LET c == ops[i].conn
           r == Consume(ops[i].kind, ops[i].got, inb[c])
           res == Reader(ops[i].kind, r[1])
       IN  /\ inb' = [inb EXCEPT ![c] = r[2]]
           /\ IF res.st = "done"
              THEN /\ ops' = [ops EXCEPT ![i] = Finished([@ EXCEPT !.got = r[1]], res.outcome, res.val)]
                   /\ conn' = [conn EXCEPT ![c] = connAfter(res.outcome, @)]
                   /\ hist' = [hist EXCEPT
                                 ![c].failed = @ \/ IsProtocolError(res.outcome),
                                 ![c].lastServerError = Solo(ops[i]) /\ IsServerError(res.outcome)]
                   \* SQLitStorage::transaction's continuation: js.alloc<SQLitTransaction>(conn, txId)
                   /\ tx' = IF ops[i].kind = "begin" /\ res.outcome = "ok"
                            THEN [alive |-> TRUE, transactionId |-> res.val,
                                  committed |-> FALSE, rolledBack |-> FALSE]
                            ELSE tx
              ELSE /\ ops' = [ops EXCEPT ![i].got = r[1]]
                   /\ UNCHANGED <<conn, hist, tx>>
    /\ UNCHANGED <<requestIdCounter, wire, sent>>
    /\ UNCHANGED poolVars
    /\ UNCHANGED auxVars

\* ------------------------------------------------------------------------
\* A SQLitConnection driven by its owner through its public methods.
\* ------------------------------------------------------------------------
MaxConnCalls == 1

\* The transaction id an owner passes to commitTransaction and
\* rollbackTransaction.
TxIdMenu == {<<116, 49>>}

\* connect() called by an owner that found isConnected() false (as 1041-1043
\* do); connect() itself checks nothing (273-283).  A connect that fails
\* throws before stream and connected are assigned.
ConnConnect(c) ==
    /\ ~isConnected(conn[c])
    /\ Pending(c) = {}
    /\ \E ok \in BOOLEAN :
          conn' = [conn EXCEPT ![c] = IF ok THEN connect(@) ELSE @]
    /\ UNCHANGED <<requestIdCounter, wire, inb, sent, ops, tx, hist>>
    /\ UNCHANGED poolVars
    /\ UNCHANGED auxVars

\* close() called by the owner between exchanges, every frame written so far
\* having been answered: the stream goes, and its unread bytes with it.
ConnClose(c) ==
    /\ Pending(c) = {}
    /\ Len(sent[c]) = Len(wire[c])
    /\ conn' = [conn EXCEPT ![c] = close(@)]
    /\ inb' = [inb EXCEPT ![c] = <<>>]
    /\ hist' = [hist EXCEPT ![c].closed = TRUE]
    /\ UNCHANGED <<requestIdCounter, wire, sent, ops, tx>>
    /\ UNCHANGED poolVars
    /\ UNCHANGED auxVars

\* One of the six operations called on the connection.
ConnCall(c, kind, sql, bindings) ==
    /\ CallsVia("conn") < MaxConnCalls
    /\ Issue(NewOp("conn", c, kind, FALSE), conn[c], sql, bindings)
    /\ UNCHANGED <<conn, inb, sent, tx, hist>>
    /\ UNCHANGED poolVars
    /\ UNCHANGED auxVars

ConnQuery(c) == \E sql \in SqlMenu, bindings \in BindingsMenu : ConnCall(c, "query", sql, bindings)

ConnExec(c) == \E sql \in SqlMenu, bindings \in BindingsMenu : ConnCall(c, "exec", sql, bindings)

ConnPing(c) == ConnCall(c, "ping", <<>>, <<>>)

ConnBegin(c) == ConnCall(c, "begin", <<>>, <<>>)

ConnCommit(c) == \E txId \in TxIdMenu : ConnCall(c, "commit", txId, <<>>)

ConnRollback(c) == \E txId \in TxIdMenu : ConnCall(c, "rollback", txId, <<>>)

\* ------------------------------------------------------------------------
\* SQLitStorage
\* ------------------------------------------------------------------------
\* query, exec and ping: connect the storage's connection if it is not
\* connected (waitForPromise; a failed connect throws out of the call), then
\* start the operation on it.
StorageCall(kind, blocking, sql, bindings, connectOk) ==
    /\ ~HostBlocked
    /\ CallsVia("storage") < MaxStorageCalls
    /\ IF ~isConnected(conn["s"]) /\ ~connectOk
       THEN /\ ops' = Append(ops, Finished(NewOp("storage", "s", kind, blocking), "connect failed", <<>>))
            /\ UNCHANGED <<conn, requestIdCounter, wire>>
       ELSE /\ conn' = [conn EXCEPT !["s"] = IF isConnected(@) THEN @ ELSE connect(@)]
            /\ Issue(NewOp("storage", "s", kind, blocking), conn'["s"], sql, bindings)
    /\ UNCHANGED <<inb, sent, tx, hist>>
    /\ UNCHANGED poolVars
    /\ UNCHANGED auxVars

ConnectResults(c) == IF isConnected(conn[c]) THEN {TRUE} ELSE BOOLEAN

StorageQuery ==
    \E sql \in SqlMenu, bindings \in BindingsMenu, connectOk \in ConnectResults("s") :
        StorageCall("query", TRUE, sql, bindings, connectOk)

StorageExec ==
    \E sql \in SqlMenu, bindings \in BindingsMenu, connectOk \in ConnectResults("s") :
        StorageCall("exec", FALSE, sql, bindings, connectOk)

StoragePing ==
    \E connectOk \in ConnectResults("s") : StorageCall("ping", FALSE, <<>>, <<>>, connectOk)

\* transaction(): connect the storage's own connection if needed, create a
\* connection for the transaction and start connecting it.
StorageTransaction ==
    /\ ~HostBlocked
    /\ \A i \in 1..Len(ops) : ops[i].kind # "begin"
    /\ \E connectOk \in ConnectResults("s") :
          IF ~isConnected(conn["s"]) /\ ~connectOk
          THEN /\ ops' = Append(ops, Finished(NewOp("storage", txConn, "begin", FALSE), "connect failed", <<>>))
               /\ UNCHANGED conn
          ELSE /\ conn' = [conn EXCEPT !["s"] = IF isConnected(@) THEN @ ELSE connect(@)]
               /\ ops' = Append(ops, [NewOp("storage", txConn, "begin", FALSE) EXCEPT !.st = "connecting"])
    /\ UNCHANGED <<requestIdCounter, wire, inb, sent, tx, hist>>
    /\ UNCHANGED poolVars
    /\ UNCHANGED auxVars

\* txConn->connect() settles; on success its .then runs beginTransaction().
TxConnect(i) ==
    /\ ops[i].st = "connecting"
    /\ \E ok \in BOOLEAN :
          IF ok
          THEN /\ conn' = [conn EXCEPT ![ops[i].conn] = connect(@)]
               /\ requestIdCounter' = [requestIdCounter EXCEPT !["begin"] = U32Inc(@)]
               /\ wire' = [wire EXCEPT ![ops[i].conn] =
                              Append(@, requestFrame("begin", requestIdCounter["begin"], <<>>, <<>>))]
               /\ ops' = [ops EXCEPT ![i] = [@ EXCEPT !.st = "pending", !.frame = Len(wire[ops[i].conn]) + 1]]
          ELSE /\ ops' = [ops EXCEPT ![i] = Finished(@, "connect failed", <<>>)]
               /\ UNCHANGED <<conn, requestIdCounter, wire>>
    /\ UNCHANGED <<inb, sent, tx, hist>>
    /\ UNCHANGED poolVars
    /\ UNCHANGED auxVars

\* ------------------------------------------------------------------------
\* SQLitTransaction
\* ------------------------------------------------------------------------
\* The JSG_REQUIRE at the head of query, exec, commit and rollback.
queryGuard(t) == ~t.committed /\ ~t.rolledBack

\* Mutant of execGuard: exec without the JSG_REQUIRE.
execGuardMissing(t) == TRUE

execGuard(t) == ~t.committed /\ ~t.rolledBack

commitGuard(t) == ~t.committed /\ ~t.rolledBack

\* Mutant of rollbackGuard: the guard forgets committed.
rollbackGuardIgnoresCommit(t) == ~t.rolledBack

rollbackGuard(t) == ~t.committed /\ ~t.rolledBack

\* What each call assigns before it starts its exchange (981, 992).
\* Mutant of commitMark: the flag is not set before the exchange starts.
commitMarkMissing(t) == t

commitMark(t) == [t EXCEPT !.committed = TRUE]

rollbackMark(t) == [t EXCEPT !.rolledBack = TRUE]

TxGuard(kind, t) ==
    CASE kind = "query" -> queryGuard(t)
      [] kind = "exec" -> execGuard(t)
      [] kind = "commit" -> commitGuard(t)
      [] kind = "rollback" -> rollbackGuard(t)

TxMark(kind, t) ==
    CASE kind = "commit" -> commitMark(t)
      [] kind = "rollback" -> rollbackMark(t)
      [] OTHER -> t

TxCompletedMessage == "Transaction has already been completed"

TxCall(kind, blocking, sql, bindings) ==
    /\ tx.alive
    /\ ~HostBlocked
    /\ CallsVia("tx") < MaxTxCalls
    /\ IF ~TxGuard(kind, tx)
       THEN /\ ops' = Append(ops, Finished(NewOp("tx", txConn, kind, blocking), TxCompletedMessage, <<>>))
            /\ UNCHANGED <<tx, requestIdCounter, wire>>
       ELSE /\ tx' = TxMark(kind, tx)
            /\ Issue(NewOp("tx", txConn, kind, blocking), conn[txConn], sql, bindings)
    /\ UNCHANGED <<conn, inb, sent, hist>>
    /\ UNCHANGED poolVars
    /\ UNCHANGED auxVars

TxQuery == \E sql \in SqlMenu, bindings \in BindingsMenu : TxCall("query", TRUE, sql, bindings)

TxExec == \E sql \in SqlMenu, bindings \in BindingsMenu : TxCall("exec", FALSE, sql, bindings)

TxCommit == TxCall("commit", FALSE, tx.transactionId, <<>>)

TxRollback == TxCall("rollback", FALSE, tx.transactionId, <<>>)

\* Mutant of destroyConnection: the destructor leaves the stream open.
destroyConnectionLeavesOpen(cn) == cn

\* ~SQLitConnection(): close() (269-271).
destroyConnection(cn) == close(cn)

\* The SQLitTransaction handle is destroyed (garbage collected) while the
\* host is not inside one of its calls: ~SQLitTransaction does nothing
\* (939-945) and the member connection, a kj::Own, is destroyed with it.
TxDestroy ==
    /\ tx.alive
    /\ ~HostBlocked
    /\ tx' = [tx EXCEPT !.alive = FALSE]
    /\ conn' = [conn EXCEPT ![txConn] = destroyConnection(@)]
    /\ hist' = [hist EXCEPT ![txConn].destroyed = TRUE, ![txConn].closed = TRUE]
    /\ UNCHANGED <<requestIdCounter, wire, inb, sent, ops>>
    /\ UNCHANGED poolVars
    /\ UNCHANGED auxVars

\* How an exchange ends whose connection was destroyed under it: the read it
\* was suspended in is broken with the stream, or the coroutine resumes on
\* the freed connection, whose stream is null, and faults.
AbandonedOutcomes == {"stream destroyed", "use after free"}

OpAbandoned(i) ==
    /\ ops[i].st = "pending"
    /\ ~conn[ops[i].conn].stream
    /\ \E outcome \in AbandonedOutcomes :
          ops' = [ops EXCEPT ![i] = Finished(@, outcome, <<>>)]
    /\ UNCHANGED <<conn, requestIdCounter, wire, inb, sent, tx, hist>>
    /\ UNCHANGED poolVars
    /\ UNCHANGED auxVars

\* ------------------------------------------------------------------------
\* SQLitConnectionPool
\* ------------------------------------------------------------------------
\* config.poolSize.
PoolSize == 1
\* Connections the pool constructs in one run.
MaxPoolConns == 3

\* The tasks that call acquire() and release().
Acquirers == {"A", "B", "C"}

\* acq[a].pc: "cancelled" (gave up waiting and calls the pool no more),
\* "idle" (not in acquire, holds nothing), "connecting" (suspended
\* in co_await conn->connect()), "waiting" (suspended on its promise, its
\* fulfiller queued in waiters) or "holding" (acquire returned pconn[acq[a].c]).
\* acq[a].err is the exception the last acquire() of a threw, "" if none.
\* pconn[k] is a SQLitConnection record with two observations added: poisoned,
\* an exchange on it ended in a protocol error, and dropped, release() was
\* given it and destroyed it instead of keeping it.
Holding(a) == acq[a].pc = "holding"

\* The outcomes of an exchange a holder runs on its connection.
ExchangeOutcomes == {"ok", "SQLit query error", "invalid magic number"}

\* available.back() / removeLast() (690-691).
idleTop(idle) == idle[Len(idle)]

\* Mutant of idlePop: the connection handed out stays on the idle stack.
idlePopKeeps(idle) == idle

idlePop(idle) == SubSeq(idle, 1, Len(idle) - 1)

\* The waiter release() fulfils: lock->back(), then removeLast() (729-730).
waiterPick(ws) == Len(ws)

waiterRemove(ws, k) == SubSeq(ws, 1, k - 1) \o SubSeq(ws, k + 1, Len(ws))

\* The test that lets acquire() construct a connection (697).
mayCreate(n, poolSize) == n < poolSize

\* Some acquire() is suspended: in connect() or on its waiter promise.
AcquireUnderWay == \E b \in Acquirers : acq[b].pc \in {"connecting", "waiting"}

\* acquire() up to its first wait or its return.
AcquireStart(a) ==
    /\ acq[a].pc = "idle"
    /\ IF available # <<>>
       THEN /\ acq' = [acq EXCEPT ![a] = [pc |-> "holding", c |-> idleTop(available), err |-> ""]]
            /\ available' = idlePop(available)
            /\ inUse' = inUse + 1
            /\ UNCHANGED <<waiters, pconn>>
       ELSE IF mayCreate(inUse, PoolSize)
       THEN /\ Len(pconn) < MaxPoolConns
            /\ pconn' = Append(pconn, [stream |-> FALSE, connected |-> FALSE, poisoned |-> FALSE, dropped |-> FALSE])
            /\ acq' = [acq EXCEPT ![a] = [pc |-> "connecting", c |-> Len(pconn) + 1, err |-> ""]]
            /\ UNCHANGED <<available, inUse, waiters>>
       ELSE /\ waiters' = Append(waiters, a)
            /\ acq' = [acq EXCEPT ![a] = [pc |-> "waiting", c |-> 0, err |-> ""]]
            /\ UNCHANGED <<available, inUse, pconn>>
    /\ serial' = (serial /\ ~AcquireUnderWay)
    /\ UNCHANGED connVars
    /\ UNCHANGED auxVars

\* Mutant of inUseAfterConnect: the connection is counted before connect() is awaited.
inUseCountedBeforeConnect(n, ok) == n + 1

\* inUse once co_await conn->connect() has settled: ++inUse stands after the
\* co_await (706-707), so an exception thrown by connect() skips it.
inUseAfterConnect(n, ok) == IF ok THEN n + 1 ELSE n

\* co_await conn->connect() settles (706-708): on success ++inUse and return
\* the connection; on failure the exception leaves acquire() and the
\* connection is destroyed.
ConnectSettle(a) ==
    /\ acq[a].pc = "connecting"
    /\ \E ok \in BOOLEAN :
          /\ inUse' = inUseAfterConnect(inUse, ok)
          /\ IF ok
             THEN /\ pconn' = [pconn EXCEPT ![acq[a].c] = connect(@)]
                  /\ acq' = [acq EXCEPT ![a].pc = "holding"]
             ELSE /\ acq' = [acq EXCEPT ![a] = [pc |-> "idle", c |-> 0, err |-> "connect failed"]]
                  /\ UNCHANGED pconn
    /\ UNCHANGED <<available, waiters, serial>>
    /\ UNCHANGED connVars
    /\ UNCHANGED auxVars

\* release(conn) by the task that holds conn (722-741).  Every holder was
\* counted by a ++inUse, so --inUse never starts from 0 here.
Release(a) ==
    /\ Holding(a)
    /\ LET c == acq[a].c
       IN  IF waiters # <<>>
           THEN LET k == waiterPick(waiters)
                IN  /\ waiters' = waiterRemove(waiters, k)
                    /\ inUse' = (inUse - 1) + 1
                    /\ IF acq[waiters[k]].pc = "waiting"
                       THEN /\ acq' = [acq EXCEPT ![a] = [pc |-> "idle", c |-> 0, err |-> ""],
                                                  ![waiters[k]] = [pc |-> "holding", c |-> c, err |-> ""]]
                            /\ UNCHANGED <<available, pconn>>
                       \* the fulfiller's promise is gone: fulfill() hands conn to
                       \* nobody and conn is destroyed when release() returns
                       ELSE /\ acq' = [acq EXCEPT ![a] = [pc |-> "idle", c |-> 0, err |-> ""]]
                            /\ pconn' = [pconn EXCEPT ![c] = [destroyConnection(@) EXCEPT !.dropped = TRUE]]
                            /\ UNCHANGED available
           ELSE /\ acq' = [acq EXCEPT ![a] = [pc |-> "idle", c |-> 0, err |-> ""]]
                /\ inUse' = inUse - 1
                /\ available' = IF isConnected(pconn[c]) THEN Append(available, c) ELSE available
                /\ pconn' = [pconn EXCEPT ![c].dropped = ~isConnected(pconn[c])]
                /\ UNCHANGED waiters
    /\ serial' = (serial /\ ~AcquireUnderWay)
    /\ UNCHANGED connVars
    /\ UNCHANGED auxVars

\* The promise acquire() returned to a is dropped while a is suspended on its
\* waiter promise (718-719): the coroutine is destroyed, a gives up, and its
\* fulfiller stays in waiters, which nothing but release() shortens.
CancelWait(a) ==
    /\ acq[a].pc = "waiting"
    /\ acq' = [acq EXCEPT ![a] = [pc |-> "cancelled", c |-> 0, err |-> ""]]
    /\ UNCHANGED <<available, inUse, waiters, pconn, serial>>
    /\ UNCHANGED connVars
    /\ UNCHANGED auxVars

\* A holder runs an exchange on its connection.
PoolExchange(a) ==
    /\ Holding(a)
    /\ isConnected(pconn[acq[a].c])
    /\ \E outcome \in ExchangeOutcomes :
          pconn' = [pconn EXCEPT ![acq[a].c] =
                       [connAfter(outcome, @) EXCEPT !.poisoned = @ \/ IsProtocolError(outcome)]]
    /\ UNCHANGED <<available, inUse, waiters, acq, serial>>
    /\ UNCHANGED connVars
    /\ UNCHANGED auxVars

\* A holder calls close() on its connection.
PoolClose(a) ==
    /\ Holding(a)
    /\ pconn' = [pconn EXCEPT ![acq[a].c] = close(@)]
    /\ UNCHANGED <<available, inUse, waiters, acq, serial>>
    /\ UNCHANGED connVars
    /\ UNCHANGED auxVars

\* ------------------------------------------------------------------------
\* Specifications
\* ------------------------------------------------------------------------
Init ==
    /\ conn = [c \in ConnIds |-> NewConnection]
    /\ requestIdCounter = [f \in CounterSites |-> U32Zero]
    /\ wire = [c \in ConnIds |-> <<>>]
    /\ inb = [c \in ConnIds |-> <<>>]
    /\ sent = [c \in ConnIds |-> <<>>]
    /\ ops = <<>>
    /\ tx = [alive |-> FALSE, transactionId |-> <<>>, committed |-> FALSE, rolledBack |-> FALSE]
    /\ hist = [c \in ConnIds |-> [failed |-> FALSE, lastServerError |-> FALSE,
                                  closed |-> FALSE, destroyed |-> FALSE]]
    /\ available = <<>>
    /\ inUse = 0
    /\ waiters = <<>>
    /\ acq = [a \in Acquirers |-> [pc |-> "idle", c |-> 0, err |-> ""]]
    /\ pconn = <<>>
    /\ serial = TRUE
    /\ codec = [op |-> "none"]
    /\ cursor = NoCursor

\* A SQLitStorage driven through query, exec and ping.
Next ==
    \/ StorageQuery
    \/ StorageExec
    \/ StoragePing
    \/ \E i \in 1..Len(ops) : OpProgress(i)
    \/ \E c \in ConnIds : ServerRespond(c)

Spec == Init /\ [][Next]_vars

\* A SQLitTransaction obtained from SQLitStorage::transaction and driven
\* through query, exec, commit and rollback.
TxNext ==
    \/ StorageTransaction
    \/ \E i \in 1..Len(ops) : TxConnect(i)
    \/ TxQuery
    \/ TxExec
    \/ TxCommit
    \/ TxRollback
    \/ \E i \in 1..Len(ops) : OpProgress(i)
    \/ \E c \in ConnIds : ServerRespond(c)

TxSpec == Init /\ [][TxNext]_vars

\* A SQLitTransaction that is used through query and exec and then dropped
\* by the host without commit or rollback.
TxDropNext ==
    \/ StorageTransaction
    \/ \E i \in 1..Len(ops) : TxConnect(i)
    \/ TxQuery
    \/ TxExec
    \/ TxDestroy
    \/ \E i \in 1..Len(ops) : OpProgress(i)
    \/ \E i \in 1..Len(ops) : OpAbandoned(i)
    \/ \E c \in ConnIds : ServerRespond(c)

TxDropSpec == Init /\ [][TxDropNext]_vars

\* One SQLitConnection driven by its owner.
ConnNext ==
    \/ ConnConnect("s")
    \/ ConnClose("s")
    \/ ConnQuery("s")
    \/ ConnExec("s")
    \/ ConnPing("s")
    \/ ConnBegin("s")
    \/ ConnCommit("s")
    \/ ConnRollback("s")
    \/ \E i \in 1..Len(ops) : OpProgress(i)
    \/ \E c \in ConnIds : ServerRespond(c)

ConnSpec == Init /\ [][ConnNext]_vars

\* The coroutine of an exchange is resumed whenever bytes it waits for are
\* there (the event loop runs it); the server owes nothing.
Resumed == WF_vars(\E i \in 1..Len(ops) : OpProgress(i))

\* A SQLitStorage driven through exec and ping, its exchanges resumed fairly.
LiveNext ==
    \/ StorageExec
    \/ StoragePing
    \/ \E i \in 1..Len(ops) : OpProgress(i)
    \/ \E c \in ConnIds : ServerRespond(c)

LiveSpec == Init /\ [][LiveNext]_vars /\ Resumed

\* A SQLitConnectionPool shared by the tasks of Acquirers.
PoolNext ==
    \/ \E a \in Acquirers : AcquireStart(a)
    \/ \E a \in Acquirers : ConnectSettle(a)
    \/ \E a \in Acquirers : Release(a)
    \/ \E a \in Acquirers : PoolExchange(a)
    \/ \E a \in Acquirers : PoolClose(a)

PoolSpec == Init /\ [][PoolNext]_vars

\* The pool with acquirers that may give up waiting.
PoolCancelNext ==
    \/ \E a \in Acquirers : AcquireStart(a)
    \/ \E a \in Acquirers : ConnectSettle(a)
    \/ \E a \in Acquirers : Release(a)
    \/ \E a \in Acquirers : CancelWait(a)
    \/ \E a \in Acquirers : PoolExchange(a)
    \/ \E a \in Acquirers : PoolClose(a)

PoolCancelSpec == Init /\ [][PoolCancelNext]_vars

\* Every acquirer that holds a connection releases it in the end, and every
\* connect() settles; nothing is assumed about when acquirers arrive.
HoldersRelease ==
    \A a \in Acquirers : WF_vars(Release(a)) /\ WF_vars(ConnectSettle(a))

PoolLiveSpec == Init /\ [][PoolNext]_vars /\ HoldersRelease

\* ------------------------------------------------------------------------
\* Properties
\* ------------------------------------------------------------------------
LastOp == ops[Len(ops)]

TxCalls == {i \in 1..Len(ops) : ops[i].via = "tx"}

Rejected(op) == op.st = "done" /\ op.outcome = TxCompletedMessage /\ op.frame = 0

\* C1 (PoolSpec): in every reachable state of the pool, whatever the
\* interleaving of acquire calls (also those suspended in connect()) and
\* release calls, inUse + |idle| <= poolSize.
C1_InUsePlusIdleWithinPoolSize == inUse + Len(available) <= PoolSize

\* C2 (PoolSpec): waiters are served strictly FIFO: whenever a step takes an
\* acquirer out of the waiter queue and hands it a connection, that acquirer
\* was the head of the queue, the one that had waited longest.
C2_WaitersServedFifo ==
    [][\A a \in Acquirers :
          (acq[a].pc = "waiting" /\ acq'[a].pc = "holding") => a = Head(waiters)]_vars

\* C3 (Spec): on the connection of a Storage the response of the Nth request
\* is consumed before the (N+1)th request frame is written: at no moment are
\* two exchanges of that connection under way.
C3_StorageOneExchangeAtATime == Cardinality(Pending("s")) <= 1

\* C4 (TxSpec): on the connection of a Transaction exactly one exchange is in
\* flight at any time: no query, exec, TX_COMMIT or TX_ROLLBACK frame is
\* written while an earlier exchange on that connection is still pending.
C4_TxOneExchangeAtATime == Cardinality(Pending("t")) <= 1

\* C5 (Spec): after an operation on a connection has failed with a protocol
\* error, every later operation on that connection fails.
C5_LaterOperationsFail ==
    \A i \in 1..Len(ops) :
        (ops[i].afterFail /\ ops[i].st = "done") => ops[i].outcome # "ok"

\* C6 (PoolSpec): a connection on which an exchange failed with a protocol
\* error is never returned to the pool: it is never on the idle stack.
C6_PoisonedNeverIdle ==
    \A k \in 1..Len(available) : ~pconn[available[k]].poisoned

\* C7 (TxSpec): committed and rolledBack are monotone (once true, never false
\* again) and are never both true, whatever calls are made and however the
\* exchanges end.
C7_FlagsMonotoneAndExclusive ==
    [][/\ tx.committed => tx'.committed
       /\ tx.rolledBack => tx'.rolledBack
       /\ ~(tx'.committed /\ tx'.rolledBack)]_vars

\* C7 witness: commit was called, its exchange failed, a rollback was called
\* afterwards, and committed alone is set.
C7_Witness ==
    /\ tx.committed /\ ~tx.rolledBack
    /\ \E i, j \in TxCalls :
          /\ i < j
          /\ ops[i].kind = "commit" /\ ops[i].st = "done" /\ ops[i].outcome # "ok"
          /\ ops[j].kind = "rollback"

\* C8 (TxSpec): once committed or rolledBack is true, every later call to the
\* Transaction's query, exec, commit or rollback fails with the "transaction
\* already completed" error, writes no frame and changes neither flag.
C8_CompletedTransactionRejectsCalls ==
    [][(/\ Len(ops') = Len(ops) + 1
        /\ ops'[Len(ops')].via = "tx"
        /\ (tx.committed \/ tx.rolledBack))
       => (/\ Rejected(ops'[Len(ops')])
           /\ wire' = wire
           /\ tx' = tx)]_vars

\* C8 witness: after a rollback, an exec was called and rejected.
C8_Witness ==
    /\ tx.rolledBack
    /\ \E i, j \in TxCalls :
          i < j /\ ops[i].kind = "rollback" /\ ops[j].kind = "exec" /\ Rejected(ops[j])

\* C9 (TxSpec): commit sets committed before its exchange is awaited and
\* rollback sets rolledBack likewise: from the moment the TX_COMMIT (or
\* TX_ROLLBACK) frame is written the flag is set, it stays set when the
\* exchange fails, and every call made after that moment, the exchange still
\* pending or not, is rejected by the completion guard.
C9_FlagSetBeforeExchange ==
    \A i \in TxCalls :
        (ops[i].kind \in {"commit", "rollback"} /\ ops[i].frame > 0)
        => /\ ops[i].kind = "commit" => tx.committed
           /\ ops[i].kind = "rollback" => tx.rolledBack
           /\ \A j \in TxCalls : j > i => Rejected(ops[j])

\* C9 witness: a call was made while the commit exchange was pending and was
\* rejected; the commit exchange then failed and committed is still set.
C9_Witness ==
    /\ tx.committed
    /\ \E i, j \in TxCalls :
          /\ i < j
          /\ ops[i].kind = "commit" /\ ops[i].st = "done" /\ ops[i].outcome # "ok"
          /\ Rejected(ops[j]) /\ ~ops[j].alone /\ ops[j].got = <<>>

\* C10 (Spec): a server error does not poison the connection: when a query or
\* exec that had the connection to itself fails on an ERROR frame, the
\* connection is still connected and the operation has read exactly the bytes
\* of that frame; and a ping that follows on the same connection and is
\* answered with PONG returns true.
C10_ServerErrorLeavesConnectionUsable ==
    \A i \in 1..Len(ops) :
        LET op == ops[i]
        IN  /\ (/\ op.conn = "s" /\ op.kind \in {"query", "exec"}
                /\ Solo(op) /\ op.st = "done" /\ IsServerError(op.outcome))
               => /\ isConnected(conn["s"])
                  /\ Len(op.got) = sent["s"][op.frame].len
            /\ (/\ op.conn = "s" /\ op.kind = "ping"
                /\ op.afterServerError /\ ~op.overlapped /\ op.st = "done"
                /\ sent["s"][op.frame].name = "good")
               => /\ op.outcome = "ok"
                  /\ op.val = TRUE

\* C10 witness: a query failed on an ERROR frame and the ping that followed
\* was answered with PONG and has ended.
C10_Witness ==
    \E i, j \in 1..Len(ops) :
        /\ i < j
        /\ ops[i].kind = "query" /\ Solo(ops[i]) /\ ops[i].outcome = "SQLit query error"
        /\ ops[j].kind = "ping" /\ ops[j].afterServerError /\ ~ops[j].overlapped
        /\ ops[j].st = "done" /\ sent["s"][ops[j].frame].name = "good"

\* C11 (PoolSpec): when release(conn) finds a waiter queued, the waiter is
\* handed conn only if conn.isConnected(): no step takes an acquirer out of
\* the waiter queue with a connection whose isConnected() is false.
C11_HandoffOnlyIfConnected ==
    [][\A a \in Acquirers :
          (acq[a].pc = "waiting" /\ acq'[a].pc = "holding")
          => pconn'[acq'[a].c].connected]_vars

\* C12 (PoolSpec): in every reachable state of the pool, waiters are queued
\* only when inUse = poolSize and the idle stack is empty.
C12_WaitersOnlyWhenFull ==
    waiters # <<>> => (inUse = PoolSize /\ available = <<>>)

\* C13 (PoolSpec): in every reachable state of the pool, every connection on
\* the idle stack has isConnected() = true, that is, its connected field set.
C13_IdleConnectionsConnected ==
    \A k \in 1..Len(available) : pconn[available[k]].connected

\* C13 witness: release() was given a closed connection and destroyed it, and
\* a later release() put a connection on the idle stack.
C13_Witness ==
    /\ available # <<>>
    /\ \E k \in 1..Len(pconn) : pconn[k].dropped

\* C14 (PoolSpec): when connect() fails inside acquire, inUse is not
\* incremented, the idle stack and the waiter queue are unchanged, and the
\* error propagates to that acquirer, which is handed no connection.
C14_ConnectFailureLeavesPoolUnchanged ==
    [][\A a \in Acquirers :
          (/\ acq[a].pc = "connecting" /\ acq'[a].pc # "connecting"
           /\ ~pconn'[acq[a].c].connected)
          => (/\ inUse' = inUse
              /\ available' = available
              /\ waiters' = waiters
              /\ acq'[a] = [pc |-> "idle", c |-> 0, err |-> "connect failed"])]_vars

\* C14 witness: one acquirer's connect() failed while another acquirer holds
\* a connection, and inUse counts the holder alone.
C14_Witness ==
    \E a, b \in Acquirers :
        /\ acq[a].pc = "idle" /\ acq[a].err = "connect failed"
        /\ Holding(b)
        /\ inUse = 1

\* C15 (PoolSpec): starting from the empty pool, after acquires and as many
\* releases with no concurrent access (no pool call begun while an acquire
\* was suspended, every release by the holder of the connection), inUse = 0
\* and |idle| <= poolSize.
C15_SerialUseBalances ==
    (serial /\ \A a \in Acquirers : acq[a].pc = "idle")
    => (inUse = 0 /\ Len(available) <= PoolSize)

\* C15 witness: a serial run of at least two acquire/release pairs, one that
\* returned a closed connection and one that left a connection idle, after
\* which nobody holds a connection.
C15_Witness ==
    /\ serial
    /\ \A a \in Acquirers : acq[a].pc = "idle"
    /\ Len(available) = 1
    /\ \E k \in 1..Len(pconn) : pconn[k].dropped /\ k \notin {available[j] : j \in 1..Len(available)}

\* The operation ops[i] wrote a frame and the server has answered that frame.
Answered(i) == ops[i].frame > 0 /\ Len(sent[ops[i].conn]) >= ops[i].frame

\* What the server sent in answer to the frame of ops[i].
AnswerTo(i) == sent[ops[i].conn][ops[i].frame]

\* C16 (Spec): if the requestId echoed in a response header differs from the
\* requestId of the request just written on that connection, the operation
\* fails with a protocol error.
C16_RequestIdMismatchFails ==
    \A i \in 1..Len(ops) :
        (/\ Solo(ops[i]) /\ Answered(i) /\ AnswerTo(i).name = "badId"
         /\ ops[i].st = "done")
        => IsProtocolError(ops[i].outcome)

\* The request ids of the frames written on connection c, in order.
RequestIds(c) == [k \in 1..Len(wire[c]) |-> SubSeq(wire[c][k], 9, 12)]

\* C17 (Spec): the request id advances per connection: in the sequence of
\* request frames written on one connection, whatever the mix of operations,
\* no two consecutive frames carry the same requestId.
C17_ConsecutiveRequestIdsDiffer ==
    \A c \in ConnIds : \A k \in 1..(Len(wire[c]) - 1) :
        RequestIds(c)[k + 1] # RequestIds(c)[k]

\* C18 (Spec): a length field read from the wire that would make a single
\* read exceed 16 MiB makes the operation fail before that read is performed:
\* no operation is ever suspended in a read of more than MAX_MESSAGE_SIZE bytes.
C18_NoReadBeyondMaxMessageSize ==
    \A i \in 1..Len(ops) :
        ops[i].st = "pending" => Reader(ops[i].kind, ops[i].got).n <= MAX_MESSAGE_SIZE

\* C19 (TxSpec): for query, exec, beginTransaction, commitTransaction and
\* rollbackTransaction a well-formed response header of a type other than
\* ERROR and RESULT makes the operation fail with a protocol error as soon as
\* the header is read, no following byte being read as a result body.
C19_OtherTypeIsProtocolError ==
    \A i \in 1..Len(ops) :
        (/\ ops[i].kind \in {"query", "exec", "begin", "commit", "rollback"}
         /\ Solo(ops[i]) /\ Answered(i) /\ AnswerTo(i).name = "rows"
         /\ Len(ops[i].got) >= HEADER_SIZE)
        => (ops[i].st = "done" /\ ops[i].outcome = "unexpected response type")

\* C20 (Spec): after a successful exchange the read buffer is empty: when an
\* operation that had the connection to itself returns a value (ping
\* returning false included), it has consumed every byte of the response
\* frame the server sent for it.
C20_SuccessConsumesWholeFrame ==
    \A i \in 1..Len(ops) :
        (/\ Solo(ops[i]) /\ ops[i].frame > 0
         /\ ops[i].st = "done" /\ ops[i].outcome = "ok")
        => Len(ops[i].got) = AnswerTo(i).len

\* ------------------------------------------------------------------------
\* The wire codec on its own: one application of the value codec, of the two
\* cell decoders, or of the frame builders, to inputs drawn from the menus.
\* ------------------------------------------------------------------------
\* 64-bit patterns: 0, all ones, the bytes 01..08, and +infinity as a double.
WordsMenu == {<<0, 0, 0, 0>>, <<65535, 65535, 65535, 65535>>,
              <<513, 1027, 1541, 2055>>, <<0, 0, 0, 32752>>}

BytesMenu == {<<>>, <<97>>, <<0>>, <<97, 255>>}

ValueMenu ==
    {NullValue}
    \cup {[tag |-> VALUE_INT64, words |-> w] : w \in WordsMenu}
    \cup {[tag |-> VALUE_FLOAT64, words |-> w] : w \in WordsMenu}
    \cup {[tag |-> VALUE_STRING, bytes |-> b] : b \in BytesMenu}
    \cup {[tag |-> VALUE_BLOB, bytes |-> b] : b \in BytesMenu}
    \cup {[tag |-> VALUE_BOOL, b |-> b] : b \in BOOLEAN}

\* What follows an encoded value in the buffer handed to the decoder.
TrailMenu == {<<>>, <<0>>, <<3, 1>>}

\* Cells a server may send: the encodings of the values, and cells whose
\* length does not fit their tag.
CellMenu ==
    {serializeValue(v) : v \in ValueMenu}
    \cup {<<VALUE_INT64>> \o writeLE(1, 4) \o <<7>>,
          <<VALUE_INT64>> \o writeLE(9, 4) \o <<1, 2, 3, 4, 5, 6, 7, 8, 9>>,
          <<VALUE_FLOAT64>> \o writeLE(4, 4) \o <<0, 0, 128, 63>>,
          <<VALUE_BOOL>> \o writeLE(0, 4),
          <<VALUE_BOOL>> \o writeLE(2, 4) \o <<1, 0>>,
          <<9>> \o writeLE(0, 4)}

BindingListMenu ==
    {<<>>} \cup {<<v>> : v \in ValueMenu} \cup {<<v, NullValue>> : v \in ValueMenu}

BodyTypes == {TYPE_QUERY, TYPE_EXEC, TYPE_TX_BEGIN, TYPE_TX_COMMIT, TYPE_TX_ROLLBACK}

\* serializeValue, then deserializeValue on what it produced and what follows.
CodecRoundTrip ==
    /\ codec.op = "none"
    /\ \E v \in ValueMenu, trail \in TrailMenu :
          codec' = [op |-> "roundTrip", value |-> v, trail |-> trail,
                    encoded |-> serializeValue(v),
                    decoded |-> deserializeValue(serializeValue(v) \o trail)]
    /\ UNCHANGED <<connVars, poolVars, cursor>>

\* One cell through deserializeValue and through the cell loop of query.
CodecCell ==
    /\ codec.op = "none"
    /\ \E cell \in CellMenu :
          codec' = [op |-> "cell", cell |-> cell,
                    decoded |-> deserializeValue(cell),
                    inline |-> readCells(cell, 0, 0, 1, <<>>)]
    /\ UNCHANGED <<connVars, poolVars, cursor>>

\* A request frame from buildRequest, and beginTransaction's frame for the
\* same request id and database.
CodecFrame ==
    /\ codec.op = "none"
    /\ \E type \in BodyTypes, requestId \in {U32Zero, <<255, 255, 255, 255>>},
          databaseId \in {<<>>, DatabaseId}, sql \in {<<>>, <<83>>},
          bindings \in BindingListMenu :
          codec' = [op |-> "frame", type |-> type, bindings |-> bindings,
                    frame |-> buildRequest(type, requestId,
                                           IF type = TYPE_QUERY THEN FLAG_ASSOC ELSE 0,
                                           databaseId, sql, bindings),
                    begin |-> beginFrame(requestId, databaseId),
                    ref |-> buildRequest(TYPE_TX_BEGIN, requestId, 0, databaseId, <<>>, <<>>)]
    /\ UNCHANGED <<connVars, poolVars, cursor>>

\* Result sets a server may send: the column counts, among them the largest
\* the one-byte field holds, and the two cells that alternate in the rows.
ColCountMenu == {0, 1, 2, 255}

\* Rows of a result set.
MaxResultRows == 2

ResultCellMenu ==
    {serializeValue(NullValue),
     serializeValue([tag |-> VALUE_INT64, words |-> <<513, 1027, 1541, 2055>>]),
     serializeValue([tag |-> VALUE_STRING, bytes |-> <<97>>]),
     <<VALUE_INT64>> \o writeLE(1, 4) \o <<7>>,
     <<9>> \o writeLE(0, 4)}

RECURSIVE Concat(_)
Concat(parts) ==
    IF Len(parts) = 0 THEN <<>>
    ELSE IF Len(parts) = 1 THEN parts[1]
    ELSE Concat(SubSeq(parts, 1, Len(parts) \div 2))
         \o Concat(SubSeq(parts, Len(parts) \div 2 + 1, Len(parts)))

\* The body of a RESULT frame answering a query (spec 4.2): success,
\* colCount, the names, rowCount, the rows cell by cell.
resultSetBody(colCount, rowCount, a, b) ==
    <<1, colCount>>
    \o Concat([c \in 1..colCount |-> IF c % 2 = 1 THEN writeLE(1, 4) \o <<97>> ELSE writeLE(0, 4)])
    \o writeLE(rowCount, 4)
    \o Concat([k \in 1..(rowCount * colCount) |->
                  IF (((k - 1) \div colCount) + ((k - 1) % colCount)) % 2 = 0 THEN a ELSE b])

\* query's reads (376-464) run over a complete RESULT frame.
CodecResult ==
    /\ codec.op = "none"
    /\ \E colCount \in ColCountMenu, rowCount \in 0..MaxResultRows, a \in ResultCellMenu, b \in ResultCellMenu :
          codec' = [op |-> "result", colCount |-> colCount, rowCount |-> rowCount,
                    cells |-> {a, b},
                    read |-> queryReader(respHeader(MAGIC_NUMBER, PROTOCOL_VERSION, TYPE_RESULT, U32Zero)
                                         \o resultSetBody(colCount, rowCount, a, b))]
    /\ UNCHANGED <<connVars, poolVars, cursor>>

CodecNext ==
    \/ CodecRoundTrip
    \/ CodecCell
    \/ CodecFrame
    \/ CodecResult

CodecSpec == Init /\ [][CodecNext]_vars

\* The bodyLen field of a frame and the number of bytes that follow it.
bodyLenOf(frame) == readLen(SubSeq(frame, HEADER_SIZE + 1, HEADER_SIZE + 4))

bytesAfterBodyLen(frame) == Len(frame) - (HEADER_SIZE + 4)

\* C27 (CodecSpec): value round trip: deserializeValue(serializeValue(v)) = v
\* for every value of the variants Null, Int64, Float64 (as bit pattern),
\* String, Blob and Bool, and the decoder consumes exactly the bytes the
\* encoder produced, leaving what follows them.
C27_ValueRoundTrip ==
    codec.op = "roundTrip"
    => /\ codec.decoded.err = ""
       /\ codec.decoded.value = codec.value
       /\ codec.decoded.rest = codec.trail

\* C27 witness: a Bool was encoded and decoded with bytes following it.
C27_Witness ==
    /\ codec.op = "roundTrip"
    /\ codec.value.tag = VALUE_BOOL /\ codec.value.b
    /\ codec.trail # <<>>
    /\ Len(codec.encoded) = 6

\* C29 (CodecSpec): the inline cell decoder of query accepts and rejects
\* exactly the encodings deserializeValue accepts and rejects: a cell tagged
\* INT64 or FLOAT64 with len # 8, or BOOL with len # 1, is rejected by both.
C29_InlineDecoderAgrees ==
    codec.op = "cell"
    => ((codec.inline.st = "ok") <=> (codec.decoded.err = ""))

\* C30 (CodecSpec): in every request frame with a body the bodyLen field
\* equals the number of bytes that follow it, and beginTransaction's
\* hand-built frame is byte for byte buildRequest(TX_BEGIN, id, 0,
\* databaseId, "", no bindings).
C30_BodyLenAndBeginFrame ==
    codec.op = "frame"
    => /\ bodyLenOf(codec.frame) = bytesAfterBodyLen(codec.frame)
       /\ bodyLenOf(codec.begin) = bytesAfterBodyLen(codec.begin)
       /\ codec.begin = codec.ref

\* C30 witness: a QUERY frame with two bindings was built next to a TX_BEGIN
\* frame for a non-empty database id.
C30_Witness ==
    /\ codec.op = "frame"
    /\ codec.type = TYPE_QUERY /\ Len(codec.bindings) = 2
    /\ Len(codec.begin) = HEADER_SIZE + 4 + 4 + Len(DatabaseId) + 4 + 2

\* ------------------------------------------------------------------------
\* SQLitCursor: the materialized result of one query and its two iterators,
\* for (row of cursor) and for (row of cursor.raw()), which share currentRow.
\*   columns, rows     the result as the constructor received it
\*   currentRow        the member both iterators and next() advance (0-based)
\*   assoc, raw        what each iteration has yielded so far
\*   assocDone, rawDone  the iteration has returned kj::none
\* ------------------------------------------------------------------------
\* Rows in a result.
MaxRows == 2

\* Column lists ("id"; "id", "n") and cell values (null, the integer 1, "a").
ColumnsMenu == {<<<<105, 100>>>>, <<<<105, 100>>, <<110>>>>}

CursorValueMenu ==
    {NullValue, [tag |-> VALUE_INT64, words |-> <<1, 0, 0, 0>>],
     [tag |-> VALUE_STRING, bytes |-> <<97>>]}

\* The JavaScript value made of a SQLitValue (771-791): wrapBytes, str, num,
\* num(static_cast<double>), boolean or null.
jsValue(v) ==
    CASE v.tag = VALUE_BLOB -> [js |-> "bytes", of |-> v.bytes]
      [] v.tag = VALUE_STRING -> [js |-> "string", of |-> v.bytes]
      [] v.tag = VALUE_FLOAT64 -> [js |-> "number", of |-> v.words]
      [] v.tag = VALUE_INT64 -> [js |-> "number", of |-> v.words]
      [] v.tag = VALUE_BOOL -> [js |-> "boolean", of |-> v.b]
      [] OTHER -> [js |-> "null", of |-> <<>>]

\* The object next() builds of a row: obj.set(columns[i], value) for
\* i < columns.size() && i < row.size(), a later set of a name replacing an
\* earlier one.
rowObject(columns, row) ==
    LET m == Min(Len(columns), Len(row))
        last(name) == CHOOSE i \in 1..m :
                          columns[i] = name /\ \A j \in (i + 1)..m : columns[j] # name
    IN  [name \in {columns[i] : i \in 1..m} |-> jsValue(row[last(name)])]

\* The array rawIteratorNext builds of a row (899-921).
rowArray(row) == [i \in 1..Len(row) |-> jsValue(row[i])]

\* js.alloc<SQLitCursor>(columns, rows) at the end of a query (1050).
CursorOpen ==
    /\ ~cursor.open
    /\ \E columns \in ColumnsMenu, n \in 0..MaxRows :
          \E rows \in [1..n -> [1..Len(columns) -> CursorValueMenu]] :
              cursor' = [open |-> TRUE, columns |-> columns, rows |-> rows, currentRow |-> 0,
                         assoc |-> <<>>, raw |-> <<>>,
                         assocDone |-> FALSE, rawDone |-> FALSE]
    /\ UNCHANGED <<connVars, poolVars, codec>>

\* One step of for (row of cursor): rowIteratorNext (879-889), which calls
\* next() (762-795).  It runs while no raw iteration is under way.
CursorRowIteratorNext ==
    /\ cursor.open /\ ~cursor.assocDone
    /\ cursor.raw = <<>> \/ cursor.rawDone
    /\ cursor' = IF cursor.currentRow >= Len(cursor.rows)
                 THEN [cursor EXCEPT !.assocDone = TRUE]
                 ELSE [cursor EXCEPT
                          !.currentRow = @ + 1,
                          !.assoc = Append(@, rowObject(cursor.columns,
                                                        cursor.rows[cursor.currentRow + 1]))]
    /\ UNCHANGED <<connVars, poolVars, codec>>

\* One step of for (row of cursor.raw()): rawIteratorNext (891-924).  It runs
\* while no associative iteration is under way.
CursorRawIteratorNext ==
    /\ cursor.open /\ ~cursor.rawDone
    /\ cursor.assoc = <<>> \/ cursor.assocDone
    /\ cursor' = IF cursor.currentRow >= Len(cursor.rows)
                 THEN [cursor EXCEPT !.rawDone = TRUE]
                 ELSE [cursor EXCEPT
                          !.currentRow = @ + 1,
                          !.raw = Append(@, rowArray(cursor.rows[cursor.currentRow + 1]))]
    /\ UNCHANGED <<connVars, poolVars, codec>>

CursorNext ==
    \/ CursorOpen
    \/ CursorRowIteratorNext
    \/ CursorRawIteratorNext

CursorSpec == Init /\ [][CursorNext]_vars

\* C28 (CursorSpec): for a cursor over n rows the associative iteration,
\* once it has ended, has yielded all n rows in result order as column-named
\* objects, and the raw iteration of the same cursor, once it has ended, has
\* yielded all n rows in result order as arrays, whichever of the two ran
\* first.
C28_BothIterationsYieldAllRows ==
    cursor.open
    => /\ cursor.assocDone
          => cursor.assoc = [k \in 1..Len(cursor.rows) |->
                                rowObject(cursor.columns, cursor.rows[k])]
       /\ cursor.rawDone
          => cursor.raw = [k \in 1..Len(cursor.rows) |-> rowArray(cursor.rows[k])]

TxFrames == [k \in 1..Cardinality({i \in TxCalls : ops[i].frame > 0}) |->
                LET i == CHOOSE j \in TxCalls :
                            /\ ops[j].frame > 0
                            /\ Cardinality({m \in TxCalls : m <= j /\ ops[m].frame > 0}) = k
                IN  ops[i].frame]

KindType(kind) ==
    CASE kind = "query" -> TYPE_QUERY
      [] kind = "exec" -> TYPE_EXEC
      [] kind = "ping" -> TYPE_PING
      [] kind = "begin" -> TYPE_TX_BEGIN
      [] kind = "commit" -> TYPE_TX_COMMIT
      [] kind = "rollback" -> TYPE_TX_ROLLBACK

\* C24 (TxSpec): all frames of one transaction travel on one dedicated
\* connection in call order: TX_BEGIN is the first frame of the connection
\* the Transaction owns, the frames of the Transaction's calls follow it on
\* that connection one after the other in call order, each of the type of
\* its call, and none of them is written on the Storage's shared connection.
C24_TransactionFramesOnOwnConnection ==
    /\ wire["s"] = <<>>
    /\ \A i \in 1..Len(ops) :
          (ops[i].kind = "begin" /\ ops[i].frame > 0)
          => (ops[i].conn = "t" /\ ops[i].frame = 1 /\ wire["t"][1][6] = TYPE_TX_BEGIN)
    /\ \A i \in TxCalls :
          /\ ops[i].conn = "t"
          /\ ops[i].frame > 0 => wire["t"][ops[i].frame][6] = KindType(ops[i].kind)
    /\ TxFrames = [k \in 1..Len(TxFrames) |-> k + 1]
    /\ Len(wire["t"]) <= 1 + Len(TxFrames)

\* C24 witness: TX_BEGIN, then EXEC, then TX_COMMIT are on the transaction's
\* connection and the commit has succeeded.
C24_Witness ==
    /\ Len(wire["t"]) = 3
    /\ wire["t"][1][6] = TYPE_TX_BEGIN
    /\ wire["t"][2][6] = TYPE_EXEC
    /\ wire["t"][3][6] = TYPE_TX_COMMIT
    /\ tx.committed /\ ~tx.rolledBack
    /\ \E i \in TxCalls : ops[i].kind = "commit" /\ ops[i].outcome = "ok"

\* C21 (Spec): ping() writes a header-only PING frame (12 bytes, no body)
\* and returns true if and only if the type of the response header is PONG.
C21_PingHeaderOnlyTrueIffPong ==
    \A i \in 1..Len(ops) :
        (ops[i].kind = "ping" /\ ops[i].frame > 0)
        => /\ Len(wire[ops[i].conn][ops[i].frame]) = 12
           /\ wire[ops[i].conn][ops[i].frame][6] = TYPE_PING
           /\ (ops[i].st = "done" /\ ops[i].outcome = "ok")
              => (ops[i].val <=> ops[i].got[6] = TYPE_PONG)
           /\ (Solo(ops[i]) /\ Answered(i) /\ ops[i].st = "done" /\ AnswerTo(i).name = "good")
              => (ops[i].outcome = "ok" /\ ops[i].val)
           /\ (Solo(ops[i]) /\ Answered(i) /\ ops[i].st = "done" /\ AnswerTo(i).name = "rows")
              => (ops[i].outcome = "ok" /\ ~ops[i].val)

\* C21 witness: a ping answered by PONG has returned true and a later ping,
\* answered by a header of another type, has returned false.
C21_Witness ==
    /\ Len(ops) = 2
    /\ ops[1].kind = "ping" /\ ops[1].outcome = "ok" /\ ops[1].val = TRUE
    /\ ops[1].got[6] = TYPE_PONG
    /\ ops[2].kind = "ping" /\ ops[2].outcome = "ok" /\ ops[2].val = FALSE
    /\ ops[2].got[6] = TYPE_ROWS

InvalidHeaderAnswers == {"badMagic", "badVersion"}

\* C22 (ConnSpec): in query, exec, ping, beginTransaction, commitTransaction
\* and rollbackTransaction, a response header with magic # 0x544C5153 or
\* version > 1 makes the operation fail with a protocol error, and no byte
\* of that response behind the header is read.
C22_InvalidHeaderFailsBeforeBody ==
    \A i \in 1..Len(ops) :
        (/\ Solo(ops[i]) /\ Answered(i) /\ AnswerTo(i).name \in InvalidHeaderAnswers
         /\ Len(ops[i].got) >= HEADER_SIZE)
        => /\ ops[i].st = "done"
           /\ Len(ops[i].got) = HEADER_SIZE
           /\ IsProtocolError(ops[i].outcome)
           /\ ops[i].outcome = (IF AnswerTo(i).name = "badMagic" THEN "invalid magic number"
                                ELSE "unsupported protocol version")

\* C22 witness: a commitTransaction whose answer carried version 2 has failed
\* and the body of the answer is still unread in the stream.
C22_Witness ==
    \E i \in 1..Len(ops) :
        /\ ops[i].kind = "commit" /\ Solo(ops[i]) /\ Answered(i)
        /\ AnswerTo(i).name = "badVersion" /\ AnswerTo(i).len > HEADER_SIZE
        /\ ops[i].outcome = "unsupported protocol version"
        /\ Len(inb[ops[i].conn]) = AnswerTo(i).len - HEADER_SIZE

\* C25 (LiveSpec): an exchange never stays suspended forever: every call
\* that is waiting for its response ends, with a timeout error if the server
\* does not complete the response.
C25_ExchangeNeverSuspendedForever ==
    \A k \in 1..MaxStorageCalls :
        (Len(ops) >= k /\ ops[k].st = "pending") ~> (Len(ops) >= k /\ ops[k].st = "done")

\* C26 (ConnSpec): Closed is terminal: once close() has been called on a
\* connection, no later connect() brings it back to Connected and no request
\* frame is written on it.
C26_ClosedIsTerminal ==
    [][\A c \in ConnIds :
          hist[c].closed => (~isConnected(conn'[c]) /\ wire'[c] = wire[c])]_vars

\* C31 (CodecSpec): every result set returned by query is rectangular: for
\* colCount in 0..255 and any rowCount, the returned columns have exactly
\* colCount names and every returned row exactly colCount cells; the column
\* loop ends for colCount = 255, and a frame whose cells all carry known
\* tags is returned with all its rowCount rows.
C31_ResultSetRectangular ==
    codec.op = "result"
    => /\ codec.read.st = "done"
       /\ (<<9>> \o writeLE(0, 4)) \notin codec.cells => codec.read.outcome = "ok"
       /\ codec.read.outcome = "ok"
          => /\ Len(codec.read.val[1]) = codec.colCount
             /\ Len(codec.read.val[2]) = codec.rowCount
             /\ \A r \in 1..Len(codec.read.val[2]) :
                   Len(codec.read.val[2][r]) = codec.colCount

\* C31 witness: a result set of 255 columns and two rows, NULL cells among
\* them, has been returned.
C31_Witness ==
    /\ codec.op = "result" /\ codec.colCount = 255 /\ codec.rowCount = 2
    /\ codec.read.outcome = "ok"
    /\ Len(codec.read.val[1]) = 255
    /\ Len(codec.read.val[2][2]) = 255
    /\ NullValue \in {codec.read.val[2][1][c] : c \in 1..255}

Holders == {a \in Acquirers : acq[a].pc = "holding"}

HoldersAfter == {a \in Acquirers : acq'[a].pc = "holding"}

DeadWaiterQueued == \E k \in 1..Len(waiters) : acq[waiters[k]].pc = "cancelled"

\* C32 (PoolCancelSpec): if an acquirer suspended in the waiter queue was
\* cancelled before it was fulfilled, a later release(conn) does not hand
\* conn to the dead waiter: conn goes to a live waiter or, being connected,
\* to the idle stack, and inUse follows the number of connections held.
C32_ReleaseSkipsDeadWaiters ==
    [][\A a \in Acquirers :
          (Holding(a) /\ acq'[a].pc = "idle" /\ DeadWaiterQueued)
          => /\ \/ \E b \in Acquirers :
                     acq[b].pc = "waiting" /\ acq'[b].pc = "holding" /\ acq'[b].c = acq[a].c
                \/ available' = Append(available, acq[a].c)
                \/ ~isConnected(pconn[acq[a].c])
             /\ inUse' - inUse = Cardinality(HoldersAfter) - Cardinality(Holders)]_vars

\* C33 (PoolLiveSpec): no waiter starves: if every acquirer that obtains a
\* connection eventually releases it, every acquirer that entered the waiter
\* queue is eventually handed a connection, even while new acquirers keep
\* arriving.
C33_NoWaiterStarves ==
    \A a \in Acquirers : (acq[a].pc = "waiting") ~> (acq[a].pc = "holding")

====
